---- MODULE Spec2Model ----
(***************************************************************************)
(* Model of the merge-request review workflow:                             *)
(*   src/src/gitlab_workflow.py  (GitlabWorkflow)                          *)
(*   src/src/review_workflow.py  (ReviewWorkflow)                          *)
(*                                                                         *)
(* Text is modelled as a sequence of atoms (one-character strings such as  *)
(* "1" or "\n", and a few multi-character atoms such as a file name).      *)
(* The empty string is <<>>.  Python's None is modelled by the option      *)
(* encoding None == <<>>, Some(v) == <<v>>.                                *)
(***************************************************************************)
EXTENDS Integers, Sequences, FiniteSets, TLC

VARIABLES
    pc,            \* position of review_mr / get_mr_changes
    exc,           \* exception that ended the run ("none" while running)
    gitlab_api,    \* GitlabWorkflow.gitlab_api
    init_api,      \* the gitlab_api argument the constructor was given
    mr_url,        \* argument of review_mr: [scheme, netloc, path]
    project_path,  \* review_mr local
    mr_iid,        \* review_mr local
    requests,      \* every HTTP request issued so far, in order
    base_sha,      \* get_mr_changes local
    head_sha,      \* get_mr_changes local
    changes,       \* get_mr_changes local: the list of the changes API
    idx,           \* 1-based position of the for loop over changes
    base_text,     \* get_mr_changes local (option)
    head_text,     \* get_mr_changes local (option)
    results,       \* get_mr_changes local
    rv_changes,    \* review_mr local `changes` (option: None until assigned)
    max_lines,     \* ReviewWorkflow.max_lines
    llm_calls,     \* prompts handed to llm.generate_response, in order
    all_reviews,   \* review_mr local
    report,        \* the report file (option: None until written)
    resp,          \* the HTTP response _fetch_raw_text is classifying
    fetched,       \* outcome of the last _fetch_raw_text call
    parsed         \* outcomes of parse_mr_url on the two URL shapes

vars == <<pc, exc, gitlab_api, init_api, mr_url, project_path, mr_iid, requests,
          base_sha, head_sha, changes, idx, base_text, head_text, results,
          rv_changes, max_lines, llm_calls, all_reviews, report, resp, fetched,
          parsed>>

----------------------------------------------------------------------------
(* Options and small sequence helpers *)

None == <<>>

Some(v) == <<v>>

IsNone(o) == o = <<>>

Val(o) == o[1]

Last(s) == s[Len(s)]

RECURSIVE Concat(_)
Concat(ss) == IF ss = <<>> THEN <<>> ELSE Head(ss) \o Concat(Tail(ss))

RECURSIVE SeqsUpTo(_, _)
SeqsUpTo(S, n) ==
    IF n = 0 THEN {<<>>}
    ELSE LET shorter == SeqsUpTo(S, n - 1)
         IN  shorter \cup {Append(s, x) : s \in {t \in shorter : Len(t) = n - 1}, x \in S}

----------------------------------------------------------------------------
(* str.join and str.splitlines *)

NL == "\n"

CR == "\r"

\* sep.join(parts), on atom sequences
RECURSIVE Join(_, _)
Join(parts, sep) ==
    IF parts = <<>> THEN <<>>
    ELSE IF Len(parts) = 1 THEN parts[1]
    ELSE parts[1] \o sep \o Join(Tail(parts), sep)

\* str.splitlines(): a line ends at "\n", "\r" or "\r\n"; the text after the
\* last line break is a line only when it is not empty.
RECURSIVE SplitLinesFrom(_, _)
SplitLinesFrom(text, cur) ==
    IF text = <<>> THEN (IF cur = <<>> THEN <<>> ELSE <<cur>>)
    ELSE IF Head(text) = CR /\ Len(text) >= 2 /\ text[2] = NL
         THEN <<cur>> \o SplitLinesFrom(Tail(Tail(text)), <<>>)
    ELSE IF Head(text) \in {NL, CR}
         THEN <<cur>> \o SplitLinesFrom(Tail(text), <<>>)
    ELSE SplitLinesFrom(Tail(text), Append(cur, Head(text)))

splitlines(text) == SplitLinesFrom(text, <<>>)

----------------------------------------------------------------------------
(* GitlabWorkflow.parse_mr_url *)

SLASH == "/"

\* str.strip("/")
RECURSIVE LStrip(_, _)
LStrip(text, c) ==
    IF text # <<>> /\ Head(text) = c THEN LStrip(Tail(text), c) ELSE text

RECURSIVE RStrip(_, _)
RStrip(text, c) ==
    IF text # <<>> /\ Last(text) = c THEN RStrip(SubSeq(text, 1, Len(text) - 1), c) ELSE text

Strip(text, c) == RStrip(LStrip(text, c), c)

\* str.split(sep): the text after the last separator is always a part, so
\* "".split("/") is [""].
RECURSIVE SplitFrom(_, _, _)
SplitFrom(text, sep, cur) ==
    IF text = <<>> THEN <<cur>>
    ELSE IF Head(text) = sep THEN <<cur>> \o SplitFrom(Tail(text), sep, <<>>)
    ELSE SplitFrom(Tail(text), sep, Append(cur, Head(text)))

Split(text, sep) == SplitFrom(text, sep, <<>>)

\* list.index(x): the first 0-based position of x, or -1 for ValueError
IndexOf(parts, x) ==
    IF \E i \in 1..Len(parts) : parts[i] = x
    THEN (CHOOSE i \in 1..Len(parts) : parts[i] = x /\ \A j \in 1..(i - 1) : parts[j] # x) - 1
    ELSE -1

\* list[k] for a 0-based k that may be negative (Python counts from the end);
\* the caller guarantees -Len <= k < Len
PyAt(parts, k) == IF k < 0 THEN parts[Len(parts) + k + 1] ELSE parts[k + 1]

\* list[:k] for a 0-based k that may be negative
PyPrefix(parts, k) ==
    IF k < 0 THEN SubSeq(parts, 1, Len(parts) + k)
    ELSE SubSeq(parts, 1, IF k > Len(parts) THEN Len(parts) ELSE k)

Digits == <<"0", "1", "2", "3", "4", "5", "6", "7", "8", "9">>

IsDigit(c) == \E d \in 1..Len(Digits) : Digits[d] = c

DigitVal(c) == (CHOOSE d \in 1..Len(Digits) : Digits[d] = c) - 1

RECURSIVE DigitsVal(_)
DigitsVal(ds) ==
    IF ds = <<>> THEN 0 ELSE DigitsVal(SubSeq(ds, 1, Len(ds) - 1)) * 10 + DigitVal(Last(ds))

AllDigits(ds) == ds # <<>> /\ \A i \in 1..Len(ds) : IsDigit(ds[i])

\* int(s) accepts an optional sign followed by decimal digits
IntLiteral(s) ==
    IF s # <<>> /\ Head(s) \in {"+", "-"} THEN AllDigits(Tail(s)) ELSE AllDigits(s)

IntValue(s) ==
    IF Head(s) = "-" THEN 0 - DigitsVal(Tail(s))
    ELSE IF Head(s) = "+" THEN DigitsVal(Tail(s))
    ELSE DigitsVal(s)

MERGE_REQUESTS == <<"merge_requests">>

SENTINEL == <<"-">>

ApiBase(url) == <<url.scheme, "://", url.netloc, "/api/v4">>

ParseFailed(e, api) ==
    [raised |-> e, project_path |-> <<>>, mr_iid |-> 0, gitlab_api |-> api]

\* a parser that keeps the "-" before "merge_requests"
ProjectPath_keepsSentinel(path_parts, mr_index) ==
    Join(PyPrefix(path_parts, mr_index), <<SLASH>>)

\* lines 113-114: the segments before "merge_requests", without a "-" that
\* comes right before it, joined with "/"
ProjectPath(path_parts, mr_index) ==
    IF PyAt(path_parts, mr_index - 1) = SENTINEL
    THEN Join(PyPrefix(path_parts, mr_index - 1), <<SLASH>>)
    ELSE Join(PyPrefix(path_parts, mr_index), <<SLASH>>)

\* parse_mr_url(mr_url) on an object whose gitlab_api is api: the exception it
\* raises ("none" when it returns), the pair it returns and the gitlab_api it
\* leaves behind.
parse_mr_url(url, api) ==
    LET path_parts == Split(Strip(url.path, SLASH), SLASH)
        mr_index   == IndexOf(path_parts, MERGE_REQUESTS)
    IN  IF mr_index < 0 THEN ParseFailed("ValueError", api)
        ELSE IF mr_index + 1 >= Len(path_parts) THEN ParseFailed("IndexError", api)
        ELSE IF ~IntLiteral(path_parts[mr_index + 2]) THEN ParseFailed("ValueError", api)
        ELSE [raised       |-> "none",
              project_path |-> ProjectPath(path_parts, mr_index),
              mr_iid       |-> IntValue(path_parts[mr_index + 2]),
              gitlab_api   |-> ApiBase(url)]

----------------------------------------------------------------------------
(* GitlabWorkflow._fetch_raw_text *)

NUL == 0

NOT_FOUND == 404

\* bytes.decode("utf-8") for one- and two-byte sequences: a byte below 0x80 is
\* its own code point; a lead byte 0xC2..0xDF needs one continuation byte
\* 0x80..0xBF; every other byte of the modelled alphabet (a stray continuation
\* byte, 0xC0, 0xC1, 0xFF) is a UnicodeDecodeError, modelled as None.
RECURSIVE Utf8Decode(_)
Utf8Decode(data) ==
    IF data = <<>> THEN Some(<<>>)
    ELSE IF Head(data) < 128
         THEN LET rest == Utf8Decode(Tail(data))
              IN  IF IsNone(rest) THEN None ELSE Some(<<Head(data)>> \o Val(rest))
    ELSE IF /\ Head(data) >= 194 /\ Head(data) <= 223
            /\ Len(data) >= 2 /\ data[2] >= 128 /\ data[2] <= 191
         THEN LET rest == Utf8Decode(Tail(Tail(data)))
              IN  IF IsNone(rest) THEN None
                  ELSE Some(<<(Head(data) - 192) * 64 + (data[2] - 128)>> \o Val(rest))
    ELSE None

\* bytes.decode("latin-1"): every byte is its own code point; never fails
Latin1Decode(data) == Some(data)

\* The character of a code point, as an atom of text
Chr(cp) ==
    CASE cp = 10 -> NL
      [] cp = 13 -> CR
      [] cp = 49 -> "1"
      [] cp = 50 -> "2"
      [] cp = 169 -> "U+00A9"
      [] cp = 195 -> "U+00C3"
      [] cp = 233 -> "U+00E9"
      [] cp = 255 -> "U+00FF"
      [] OTHER -> "U+FFFF"

Text(cps) == [i \in 1..Len(cps) |-> Chr(cps[i])]

Timeout(r) == r.timeout

\* Response.raise_for_status(): HTTPError for a 4xx or 5xx status
HTTPError(r) == r.status >= 400 /\ r.status < 600

Raised(e) == [raised |-> e, value |-> None]

Returned(v) == [raised |-> "none", value |-> v]

\* the two encodings tried in the other order
DecodeBody_latin1First(data) ==
    IF ~IsNone(Latin1Decode(data)) THEN Returned(Some(Text(Val(Latin1Decode(data)))))
    ELSE IF ~IsNone(Utf8Decode(data)) THEN Returned(Some(Text(Val(Utf8Decode(data)))))
    ELSE Returned(None)

\* the `for encoding in ("utf-8", "latin-1")` loop
DecodeBody(data) ==
    IF ~IsNone(Utf8Decode(data)) THEN Returned(Some(Text(Val(Utf8Decode(data)))))
    ELSE IF ~IsNone(Latin1Decode(data)) THEN Returned(Some(Text(Val(Latin1Decode(data)))))
    ELSE Returned(None)

\* a fetcher that treats every failed retrieval as an unavailable file
fetch_raw_text_swallowsErrors(r) ==
    IF Timeout(r) \/ HTTPError(r) THEN Returned(None)
    ELSE IF \E i \in 1..Len(r.content) : r.content[i] = NUL THEN Returned(None)
    ELSE IF ~IsNone(Utf8Decode(r.content)) THEN Returned(Some(Text(Val(Utf8Decode(r.content)))))
    ELSE Returned(Some(Text(Val(Latin1Decode(r.content)))))

\* _fetch_raw_text, given the response r of its requests.get
fetch_raw_text(r) ==
    IF Timeout(r) THEN Raised("Timeout")
    ELSE IF r.status = NOT_FOUND THEN Returned(None)
    ELSE IF HTTPError(r) THEN Raised("HTTPError")
    ELSE IF \E i \in 1..Len(r.content) : r.content[i] = NUL THEN Returned(None)
    ELSE DecodeBody(r.content)

RawRequest(api, project, ref, file_path) ==
    [kind |-> "raw", api |-> api, project |-> project, iid |-> 0, ref |-> ref,
     path |-> file_path]

----------------------------------------------------------------------------
(* GitlabWorkflow._generate_diff, with difflib.unified_diff *)

\* SequenceMatcher.find_longest_match over whole a and b: the longest block
\* a[i..i+k-1] = b[j..j+k-1]; among the longest the one starting earliest in
\* a, and among those the one starting earliest in b.  <<i, j, k>>, k = 0
\* when no line matches.
Matches(a, b) ==
    {m \in (1..Len(a)) \X (1..Len(b)) \X (1..Len(a)) :
        /\ m[1] + m[3] - 1 <= Len(a)
        /\ m[2] + m[3] - 1 <= Len(b)
        /\ SubSeq(a, m[1], m[1] + m[3] - 1) = SubSeq(b, m[2], m[2] + m[3] - 1)}

LongestMatch(a, b) ==
    IF Matches(a, b) = {} THEN <<1, 1, 0>>
    ELSE CHOOSE m \in Matches(a, b) :
            \A o \in Matches(a, b) :
                \/ m[3] > o[3]
                \/ m[3] = o[3] /\ m[1] < o[1]
                \/ m[3] = o[3] /\ m[1] = o[1] /\ m[2] <= o[2]

Prefixed(c, lines) == [i \in 1..Len(lines) |-> <<c>> \o lines[i]]

\* The body of the hunk: get_opcodes() rendered by unified_diff (equal lines
\* with " ", base lines of a replace/delete with "-", then head lines of a
\* replace/insert with "+").
RECURSIVE HunkLines(_, _)
HunkLines(a, b) ==
    LET m == LongestMatch(a, b)
    IN  IF m[3] = 0 THEN Prefixed("-", a) \o Prefixed("+", b)
        ELSE HunkLines(SubSeq(a, 1, m[1] - 1), SubSeq(b, 1, m[2] - 1))
             \o Prefixed(" ", SubSeq(a, m[1], m[1] + m[3] - 1))
             \o HunkLines(SubSeq(a, m[1] + m[3], Len(a)), SubSeq(b, m[2] + m[3], Len(b)))

\* difflib._format_range_unified(0, length)
FormatRange(length) ==
    IF length = 1 THEN <<"1">>
    ELSE IF length = 0 THEN <<"0", ",", "0">>
    ELSE <<"1", ",", Digits[length + 1]>>

\* difflib.unified_diff(a, b, fromfile, tofile, lineterm="") for files of at
\* most n = 3 lines, where the context never trims a line and the opcodes form
\* one group: nothing when a = b, else the two file headers, the hunk header
\* and the hunk.
unified_diff(a, b, fromfile, tofile) ==
    IF a = b THEN <<>>
    ELSE << <<"--- ", fromfile>>, <<"+++ ", tofile>>,
            <<"@@ -">> \o FormatRange(Len(a)) \o <<" +">> \o FormatRange(Len(b)) \o <<" @@">> >>
         \o HunkLines(a, b)

DEV_NULL == "/dev/null"

generate_diff(old_path, new_path, b_text, h_text) ==
    LET base_lines == IF IsNone(b_text) THEN <<>> ELSE splitlines(Val(b_text))
        head_lines == IF IsNone(h_text) THEN <<>> ELSE splitlines(Val(h_text))
    IN  Join(unified_diff(base_lines, head_lines,
                          IF old_path = "" THEN DEV_NULL ELSE old_path,
                          IF new_path = "" THEN DEV_NULL ELSE new_path),
             <<NL>>)

----------------------------------------------------------------------------
(* GitlabWorkflow.get_mr_changes *)

MetaRequest(api, project, iid) ==
    [kind |-> "meta", api |-> api, project |-> project, iid |-> iid, ref |-> "",
     path |-> ""]

ChangesRequest(api, project, iid) ==
    [kind |-> "changes", api |-> api, project |-> project, iid |-> iid, ref |-> "",
     path |-> ""]

Raise(e) ==
    /\ pc' = "raised"
    /\ exc' = e

\* only the overflow flag is read
Overflow_ignoresTooLarge(ch) == ch.overflow

\* `overflow = ch.get("overflow") or ch.get("too_large")`
Overflow(ch) == ch.overflow \/ ch.too_large

\* `if api_diff and not overflow`: None and "" are both falsy
UseApiDiff(ch) == ~IsNone(ch.diff) /\ Val(ch.diff) # <<>> /\ ~Overflow(ch)

\* the server diff marked as generated
ApiResult_markedGenerated(ch) ==
    [old_path |-> ch.old_path, new_path |-> ch.new_path, diff |-> Val(ch.diff),
     generated |-> TRUE, binary |-> FALSE]

ApiResult(ch) ==
    [old_path |-> ch.old_path, new_path |-> ch.new_path, diff |-> Val(ch.diff),
     generated |-> FALSE, binary |-> FALSE]

BinaryResult(ch) ==
    [old_path |-> ch.old_path, new_path |-> ch.new_path, diff |-> <<>>,
     generated |-> FALSE, binary |-> TRUE]

GeneratedResult(ch, b_text, h_text) ==
    [old_path |-> ch.old_path, new_path |-> ch.new_path,
     diff |-> generate_diff(ch.old_path, ch.new_path, b_text, h_text),
     generated |-> TRUE, binary |-> FALSE]

\* the binary marker only for a record flagged both new and deleted
Reconstructed_byFlags(ch, b_text, h_text) ==
    IF ch.new_file /\ ch.deleted_file THEN BinaryResult(ch)
    ELSE GeneratedResult(ch, b_text, h_text)

\* the record appended for a change whose diff is generated locally
Reconstructed(ch, b_text, h_text) ==
    IF IsNone(b_text) /\ IsNone(h_text) THEN BinaryResult(ch)
    ELSE GeneratedResult(ch, b_text, h_text)

\* the base side fetched for a new file too
FetchesBase_always(ch) == TRUE

\* `None if is_new else ...` and `None if is_del else ...`
FetchesBase(ch) == ~ch.new_file

FetchesHead(ch) == ~ch.deleted_file

\* the request _fetch_raw_text issues for one side of a change
BaseRequest(ch) == RawRequest(gitlab_api, project_path, base_sha, ch.old_path)

HeadRequest(ch) == RawRequest(gitlab_api, project_path, head_sha, ch.new_path)

Logged(req, i) == [req |-> req, change |-> i]

\* _get_mr_meta
GetMrMeta(Responses) ==
    /\ pc = "meta"
    /\ requests' = Append(requests, Logged(MetaRequest(gitlab_api, project_path, mr_iid), 0))
    /\ \E r \in Responses :
          /\ resp' = r
          /\ IF Timeout(r) THEN Raise("Timeout") /\ UNCHANGED <<base_sha, head_sha>>
             ELSE IF HTTPError(r) THEN Raise("HTTPError") /\ UNCHANGED <<base_sha, head_sha>>
             ELSE /\ base_sha' = r.base_sha
                  /\ head_sha' = r.head_sha
                  /\ pc' = "changes"
                  /\ exc' = exc
    /\ UNCHANGED <<gitlab_api, init_api, mr_url, project_path, mr_iid, changes, idx,
                   base_text, head_text, results, rv_changes, max_lines, llm_calls,
                   all_reviews, report, fetched, parsed>>

\* _get_mr_changes, and `results = []`
GetMrChangesList(Responses) ==
    /\ pc = "changes"
    /\ requests' = Append(requests, Logged(ChangesRequest(gitlab_api, project_path, mr_iid), 0))
    /\ \E r \in Responses :
          /\ resp' = r
          /\ IF Timeout(r) THEN Raise("Timeout") /\ UNCHANGED <<changes, results, idx>>
             ELSE IF HTTPError(r) THEN Raise("HTTPError") /\ UNCHANGED <<changes, results, idx>>
             ELSE /\ changes' = r.changes
                  /\ results' = <<>>
                  /\ idx' = 1
                  /\ pc' = "loop"
                  /\ exc' = exc
    /\ UNCHANGED <<gitlab_api, init_api, mr_url, project_path, mr_iid, base_sha, head_sha,
                   base_text, head_text, rv_changes, max_lines, llm_calls,
                   all_reviews, report, fetched, parsed>>

\* loop body, lines 187-195: the server diff is used as it is
TrustServerDiff ==
    /\ pc = "loop"
    /\ idx <= Len(changes)
    /\ UseApiDiff(changes[idx])
    /\ results' = Append(results, ApiResult(changes[idx]))
    /\ idx' = idx + 1
    /\ UNCHANGED <<pc, exc, gitlab_api, init_api, mr_url, project_path, mr_iid, requests,
                   base_sha, head_sha, changes, base_text, head_text, rv_changes,
                   max_lines, llm_calls, all_reviews, report, resp, fetched, parsed>>

\* loop body, line 197
FetchBase(Responses) ==
    /\ pc = "loop"
    /\ idx <= Len(changes)
    /\ ~UseApiDiff(changes[idx])
    /\ IF ~FetchesBase(changes[idx])
       THEN /\ base_text' = None
            /\ pc' = "fetch_head"
            /\ UNCHANGED <<exc, requests, resp, fetched>>
       ELSE /\ requests' = Append(requests, Logged(BaseRequest(changes[idx]), idx))
            /\ \E r \in Responses :
                  /\ resp' = r
                  /\ fetched' = fetch_raw_text(r)
                  /\ IF fetch_raw_text(r).raised # "none"
                     THEN Raise(fetch_raw_text(r).raised) /\ UNCHANGED base_text
                     ELSE /\ base_text' = fetch_raw_text(r).value
                          /\ pc' = "fetch_head"
                          /\ exc' = exc
    /\ UNCHANGED <<gitlab_api, init_api, mr_url, project_path, mr_iid, base_sha, head_sha,
                   changes, idx, head_text, results, rv_changes, max_lines, llm_calls,
                   all_reviews, report, parsed>>

\* loop body, line 198
FetchHead(Responses) ==
    /\ pc = "fetch_head"
    /\ IF ~FetchesHead(changes[idx])
       THEN /\ head_text' = None
            /\ pc' = "emit"
            /\ UNCHANGED <<exc, requests, resp, fetched>>
       ELSE /\ requests' = Append(requests, Logged(HeadRequest(changes[idx]), idx))
            /\ \E r \in Responses :
                  /\ resp' = r
                  /\ fetched' = fetch_raw_text(r)
                  /\ IF fetch_raw_text(r).raised # "none"
                     THEN Raise(fetch_raw_text(r).raised) /\ UNCHANGED head_text
                     ELSE /\ head_text' = fetch_raw_text(r).value
                          /\ pc' = "emit"
                          /\ exc' = exc
    /\ UNCHANGED <<gitlab_api, init_api, mr_url, project_path, mr_iid, base_sha, head_sha,
                   changes, idx, base_text, results, rv_changes, max_lines, llm_calls,
                   all_reviews, report, parsed>>

\* loop body, lines 200-216
EmitReconstructed ==
    /\ pc = "emit"
    /\ results' = Append(results, Reconstructed(changes[idx], base_text, head_text))
    /\ idx' = idx + 1
    /\ pc' = "loop"
    /\ UNCHANGED <<exc, gitlab_api, init_api, mr_url, project_path, mr_iid, requests,
                   base_sha, head_sha, changes, base_text, head_text, rv_changes,
                   max_lines, llm_calls, all_reviews, report, resp, fetched, parsed>>

\* `return results`, assigned to review_mr's `changes`
ReturnResults ==
    /\ pc = "loop"
    /\ idx > Len(changes)
    /\ rv_changes' = Some(results)
    /\ pc' = "split"
    /\ UNCHANGED <<exc, gitlab_api, init_api, mr_url, project_path, mr_iid, requests,
                   base_sha, head_sha, changes, idx, base_text, head_text, results,
                   max_lines, llm_calls, all_reviews, report, resp, fetched, parsed>>

----------------------------------------------------------------------------
(* ReviewWorkflow *)

DEFAULT_MAX_LINES == 200

Chunk(change, diff_lines, i, n) ==
    [new_path    |-> change.new_path,
     diff        |-> Join(SubSeq(diff_lines, i + 1,
                                 IF i + n > Len(diff_lines) THEN Len(diff_lines) ELSE i + n),
                          <<NL>>),
     chunk_index |-> (i \div n) + 1]

\* `for i in range(0, len(diff_lines), self.max_lines)`
RECURSIVE ChunksFrom(_, _, _, _)
ChunksFrom(change, diff_lines, i, n) ==
    IF i >= Len(diff_lines) THEN <<>>
    ELSE <<Chunk(change, diff_lines, i, n)>> \o ChunksFrom(change, diff_lines, i + n, n)

\* a diff of exactly n lines is chunked too
SplitOne_atThreshold(change, n) ==
    IF Len(splitlines(change.diff)) >= n
    THEN ChunksFrom(change, splitlines(change.diff), 0, n)
    ELSE <<change>>

\* what one change contributes to new_changes
SplitOne(change, n) ==
    IF Len(splitlines(change.diff)) > n
    THEN ChunksFrom(change, splitlines(change.diff), 0, n)
    ELSE <<change>>

RECURSIVE split_large_diffs(_, _)
split_large_diffs(chs, n) ==
    IF chs = <<>> THEN <<>> ELSE SplitOne(Head(chs), n) \o split_large_diffs(Tail(chs), n)

\* _make_prompt: the parts of the prompt that vary
Prompt(part) == [file_path |-> part.new_path, diff |-> part.diff]

\* the text llm.generate_response returns
REVIEW == "review"

\* f"### {file_path}\n{review}\n"
ReviewEntry(part) == <<"### ", part.new_path, NL, REVIEW, NL>>

\* review_mr, line 80
ParseMrUrl ==
    /\ pc = "parse"
    /\ LET r == parse_mr_url(mr_url, gitlab_api)
       IN  /\ gitlab_api' = r.gitlab_api
           /\ IF r.raised # "none"
              THEN Raise(r.raised) /\ UNCHANGED <<project_path, mr_iid>>
              ELSE /\ project_path' = r.project_path
                   /\ mr_iid' = r.mr_iid
                   /\ pc' = "meta"
                   /\ exc' = exc
    /\ UNCHANGED <<init_api, mr_url, requests, base_sha, head_sha, changes, idx,
                   base_text, head_text, results, rv_changes, max_lines, llm_calls,
                   all_reviews, report, resp, fetched, parsed>>

\* review_mr, line 83
SplitLargeDiffs ==
    /\ pc = "split"
    /\ rv_changes' = Some(split_large_diffs(Val(rv_changes), max_lines))
    /\ pc' = "review"
    /\ UNCHANGED <<exc, gitlab_api, init_api, mr_url, project_path, mr_iid, requests,
                   base_sha, head_sha, changes, idx, base_text, head_text, results,
                   max_lines, llm_calls, all_reviews, report, resp, fetched, parsed>>

\* review_mr, lines 88-90: one turn of the loop over the files and chunks
ReviewOne ==
    /\ pc = "review"
    /\ Len(all_reviews) < Len(Val(rv_changes))
    /\ LET part == Val(rv_changes)[Len(all_reviews) + 1]
       IN  /\ llm_calls' = Append(llm_calls, Prompt(part))
           /\ all_reviews' = Append(all_reviews, ReviewEntry(part))
    /\ UNCHANGED <<pc, exc, gitlab_api, init_api, mr_url, project_path, mr_iid, requests,
                   base_sha, head_sha, changes, idx, base_text, head_text, results,
                   rv_changes, max_lines, report, resp, fetched, parsed>>

\* review_mr, lines 95-103
WriteReport ==
    /\ pc = "review"
    /\ Len(all_reviews) = Len(Val(rv_changes))
    /\ report' = Some([name |-> mr_iid, text |-> Join(all_reviews, <<NL, NL>>)])
    /\ pc' = "done"
    /\ UNCHANGED <<exc, gitlab_api, init_api, mr_url, project_path, mr_iid, requests,
                   base_sha, head_sha, changes, idx, base_text, head_text, results,
                   rv_changes, max_lines, llm_calls, all_reviews, resp, fetched, parsed>>

----------------------------------------------------------------------------
(* The environment: URLs, servers' responses *)

MaxChanges == 2

Url(path) == [scheme |-> "https", netloc |-> "gitlab.example.com", path |-> path]

\* review_mr's argument: the two valid shapes, and three invalid ones (no
\* "merge_requests" segment, no IID after it, a non-numeric IID)
Urls ==
    { Url(<<"/", "g", "/", "p", "/", "-", "/", "merge_requests", "/", "7">>),
      Url(<<"/", "g", "/", "p", "/", "merge_requests", "/", "7">>),
      Url(<<"/", "g", "/", "p", "/", "-", "/", "issues", "/", "7">>),
      Url(<<"/", "g", "/", "p", "/", "-", "/", "merge_requests", "/">>),
      Url(<<"/", "g", "/", "p", "/", "-", "/", "merge_requests", "/", "x">>) }

\* the constructor's gitlab_api: the default "" or an explicit API base
EXPLICIT_API == <<"https", "://", "proxy.internal", "/api/v4">>

ApiArgs == {<<>>, EXPLICIT_API}

HttpFailure(status) ==
    [timeout |-> FALSE, status |-> status, content |-> <<>>, base_sha |-> "",
     head_sha |-> "", changes |-> <<>>]

HttpTimeout ==
    [timeout |-> TRUE, status |-> 0, content |-> <<>>, base_sha |-> "",
     head_sha |-> "", changes |-> <<>>]

HttpBody(content) ==
    [timeout |-> FALSE, status |-> 200, content |-> content, base_sha |-> "",
     head_sha |-> "", changes |-> <<>>]

HttpMeta(b, h) ==
    [timeout |-> FALSE, status |-> 200, content |-> <<>>, base_sha |-> b,
     head_sha |-> h, changes |-> <<>>]

HttpChanges(chs) ==
    [timeout |-> FALSE, status |-> 200, content |-> <<>>, base_sha |-> "",
     head_sha |-> "", changes |-> chs]

NoResponse == HttpBody(<<>>)

MetaResponses == {HttpMeta("aaa", "bbb"), HttpFailure(404), HttpFailure(500), HttpTimeout}

\* a diff as the changes API sends it
SERVER_DIFF == <<"@@ -1 +1 @@", NL, "-", "1", NL, "+", "2">>

Change(is_new, is_del, diff, overflow, too_large) ==
    [old_path |-> "old.py", new_path |-> "new.py", new_file |-> is_new,
     deleted_file |-> is_del, diff |-> diff, overflow |-> overflow,
     too_large |-> too_large]

\* every shape of change record: the diff absent, empty or present, with
\* each combination of the four flags
ChangeRecords ==
    {Change(n, d, t, o, l) : n \in BOOLEAN, d \in BOOLEAN,
                             t \in {None, Some(<<>>), Some(SERVER_DIFF)},
                             o \in BOOLEAN, l \in BOOLEAN}

\* the records of the whole-run specification: a complete server diff, an
\* omitted diff of a modified file, an overflowed diff of a new file
WorkflowRecords ==
    { Change(FALSE, FALSE, Some(SERVER_DIFF), FALSE, FALSE),
      Change(FALSE, FALSE, None, FALSE, FALSE),
      Change(TRUE, FALSE, Some(SERVER_DIFF), TRUE, FALSE) }

ChangesResponses ==
    {HttpChanges(chs) : chs \in SeqsUpTo(WorkflowRecords, MaxChanges)}
    \cup {HttpFailure(500), HttpTimeout}

\* raw-file responses of the whole-run specification
WorkflowRaw ==
    {HttpBody(<<49, 10>>), HttpBody(<<50, 10>>), HttpFailure(404), HttpFailure(500),
     HttpTimeout}

\* raw-file responses of the reconciliation of one record: text, empty text,
\* a body with a NUL byte, a body that is not UTF-8, and the failures
ReconcileRaw ==
    {HttpBody(<<49, 10>>), HttpBody(<<50, 10>>), HttpBody(<<49, 10, 50>>), HttpBody(<<>>),
     HttpBody(<<49, 0>>), HttpBody(<<195>>), HttpFailure(404), HttpFailure(403),
     HttpFailure(500), HttpTimeout}

NoFetch == Returned(None)

----------------------------------------------------------------------------
(* The whole run: review_mr *)

NothingFetched ==
    /\ requests = <<>>
    /\ base_sha = ""
    /\ head_sha = ""
    /\ changes = <<>>
    /\ idx = 0
    /\ base_text = None
    /\ head_text = None
    /\ results = <<>>
    /\ fetched = NoFetch

NothingReviewed ==
    /\ rv_changes = None
    /\ llm_calls = <<>>
    /\ all_reviews = <<>>
    /\ report = None

Init ==
    /\ pc = "parse"
    /\ exc = "none"
    /\ init_api \in ApiArgs
    /\ gitlab_api = init_api
    /\ mr_url \in Urls
    /\ project_path = <<>>
    /\ mr_iid = 0
    /\ max_lines = DEFAULT_MAX_LINES
    /\ parsed = <<>>
    /\ resp = NoResponse
    /\ NothingFetched
    /\ NothingReviewed

Next ==
    \/ ParseMrUrl
    \/ GetMrMeta(MetaResponses)
    \/ GetMrChangesList(ChangesResponses)
    \/ TrustServerDiff
    \/ FetchBase(WorkflowRaw)
    \/ FetchHead(WorkflowRaw)
    \/ EmitReconstructed
    \/ ReturnResults
    \/ SplitLargeDiffs
    \/ ReviewOne
    \/ WriteReport

Spec == Init /\ [][Next]_vars

----------------------------------------------------------------------------
(* get_mr_changes on one change record of every shape *)

InitReconcile ==
    /\ pc = "loop"
    /\ exc = "none"
    /\ init_api = <<>>
    /\ mr_url = Url(<<"/", "g", "/", "p", "/", "-", "/", "merge_requests", "/", "7">>)
    /\ gitlab_api = ApiBase(mr_url)
    /\ project_path = <<"g", "/", "p">>
    /\ mr_iid = 7
    /\ max_lines = DEFAULT_MAX_LINES
    /\ parsed = <<>>
    /\ base_sha = "aaa"
    /\ head_sha = "bbb"
    /\ \E ch \in ChangeRecords : changes = <<ch>>
    /\ resp = HttpChanges(changes)
    /\ requests = << Logged(MetaRequest(gitlab_api, project_path, mr_iid), 0),
                     Logged(ChangesRequest(gitlab_api, project_path, mr_iid), 0) >>
    /\ idx = 1
    /\ base_text = None
    /\ head_text = None
    /\ results = <<>>
    /\ fetched = NoFetch
    /\ NothingReviewed

NextReconcile ==
    \/ TrustServerDiff
    \/ FetchBase(ReconcileRaw)
    \/ FetchHead(ReconcileRaw)
    \/ EmitReconstructed
    \/ ReturnResults

SpecReconcile == InitReconcile /\ [][NextReconcile]_vars

----------------------------------------------------------------------------
(* _fetch_raw_text on every response *)

MaxBody == 3

ByteAlphabet == {NUL, 49, 169, 195}

Statuses == {200, 403, NOT_FOUND, 500}

FetchResponses ==
    {[HttpBody(c) EXCEPT !.status = st] :
        c \in SeqsUpTo(ByteAlphabet, MaxBody), st \in Statuses}
    \cup {HttpTimeout}

InitFetch ==
    /\ pc = "fetch"
    /\ exc = "none"
    /\ init_api = <<>>
    /\ mr_url = Url(<<"/", "g", "/", "p", "/", "-", "/", "merge_requests", "/", "7">>)
    /\ gitlab_api = ApiBase(mr_url)
    /\ project_path = <<"g", "/", "p">>
    /\ mr_iid = 7
    /\ max_lines = DEFAULT_MAX_LINES
    /\ parsed = <<>>
    /\ resp \in FetchResponses
    /\ NothingFetched
    /\ NothingReviewed

\* one call of _fetch_raw_text, whose requests.get was answered by resp
ClassifyResponse ==
    /\ pc = "fetch"
    /\ fetched' = fetch_raw_text(resp)
    /\ pc' = "fetched"
    /\ UNCHANGED <<exc, gitlab_api, init_api, mr_url, project_path, mr_iid, requests,
                   base_sha, head_sha, changes, idx, base_text, head_text, results,
                   rv_changes, max_lines, llm_calls, all_reviews, report, resp, parsed>>

NextFetch == ClassifyResponse

SpecFetch == InitFetch /\ [][NextFetch]_vars

----------------------------------------------------------------------------
(* parse_mr_url on the two URL shapes of one merge request *)

MaxSegments == 3

MaxIid == 12

\* str(n)
RECURSIVE IntStr(_)
IntStr(n) == IF n < 10 THEN <<Digits[n + 1]>> ELSE Append(IntStr(n \div 10), Digits[(n % 10) + 1])

Segments == {<<"g">>, <<"p">>, SENTINEL, MERGE_REQUESTS}

\* scheme://host/P/-/merge_requests/n and scheme://host/P/merge_requests/n
MrUrl(P, n, sentinel) ==
    Url(<<SLASH>> \o Join(P \o (IF sentinel THEN <<SENTINEL>> ELSE <<>>)
                            \o <<MERGE_REQUESTS, IntStr(n)>>,
                          <<SLASH>>))

InitParse ==
    /\ pc = "parse"
    /\ exc = "none"
    /\ init_api = <<>>
    /\ gitlab_api = <<>>
    /\ mr_url = Url(<<>>)
    /\ project_path = <<>>
    /\ mr_iid = 0
    /\ max_lines = DEFAULT_MAX_LINES
    /\ \E P \in SeqsUpTo(Segments, MaxSegments) \ {<<>>}, n \in 0..MaxIid :
          parsed = [segments |-> P, iid |-> n, with |-> None, without |-> None]
    /\ resp = NoResponse
    /\ NothingFetched
    /\ NothingReviewed

ParseWithSentinel ==
    /\ IsNone(parsed.with)
    /\ LET r == parse_mr_url(MrUrl(parsed.segments, parsed.iid, TRUE), gitlab_api)
       IN  /\ parsed' = [parsed EXCEPT !.with = Some(r)]
           /\ gitlab_api' = r.gitlab_api
    /\ UNCHANGED <<pc, exc, init_api, mr_url, project_path, mr_iid, requests, base_sha,
                   head_sha, changes, idx, base_text, head_text, results, rv_changes,
                   max_lines, llm_calls, all_reviews, report, resp, fetched>>

ParseWithoutSentinel ==
    /\ IsNone(parsed.without)
    /\ LET r == parse_mr_url(MrUrl(parsed.segments, parsed.iid, FALSE), gitlab_api)
       IN  /\ parsed' = [parsed EXCEPT !.without = Some(r)]
           /\ gitlab_api' = r.gitlab_api
    /\ UNCHANGED <<pc, exc, init_api, mr_url, project_path, mr_iid, requests, base_sha,
                   head_sha, changes, idx, base_text, head_text, results, rv_changes,
                   max_lines, llm_calls, all_reviews, report, resp, fetched>>

NextParse ==
    \/ ParseWithSentinel
    \/ ParseWithoutSentinel

SpecParse == InitParse /\ [][NextParse]_vars

----------------------------------------------------------------------------
(* _split_large_diffs on lists of resolved diffs *)

MaxDiffLen == 7

MaxFiles == 2

MaxN == 2

Resolved(path, diff) ==
    [old_path |-> path, new_path |-> path, diff |-> diff, generated |-> FALSE,
     binary |-> FALSE]

\* diffs of every text over a letter and the line break
DiffTexts == SeqsUpTo({"a", NL}, MaxDiffLen)

OtherFiles == {Resolved("b.py", <<"a", NL, "a", NL, "a">>), Resolved("c.py", <<>>)}

\* lists of resolved diffs: one file with any diff text, at any place among
\* files of a three-line and of an empty diff
ResolvedLists ==
    {before \o <<Resolved("new.py", t)>> \o after :
        t \in DiffTexts,
        before \in SeqsUpTo(OtherFiles, MaxFiles - 1),
        after \in SeqsUpTo(OtherFiles, MaxFiles - 1)}

InitChunk ==
    /\ pc = "split"
    /\ exc = "none"
    /\ init_api = <<>>
    /\ mr_url = Url(<<"/", "g", "/", "p", "/", "-", "/", "merge_requests", "/", "7">>)
    /\ gitlab_api = ApiBase(mr_url)
    /\ project_path = <<"g", "/", "p">>
    /\ mr_iid = 7
    /\ max_lines \in 1..MaxN
    /\ parsed = <<>>
    /\ resp = NoResponse
    /\ requests = <<>>
    /\ base_sha = "aaa"
    /\ head_sha = "bbb"
    /\ changes = <<>>
    /\ idx = 1
    /\ base_text = None
    /\ head_text = None
    /\ results \in {l \in ResolvedLists : Len(l) <= MaxFiles}
    /\ fetched = NoFetch
    /\ rv_changes = Some(results)
    /\ llm_calls = <<>>
    /\ all_reviews = <<>>
    /\ report = None

NextChunk == SplitLargeDiffs

SpecChunk == InitChunk /\ [][NextChunk]_vars

----------------------------------------------------------------------------
(* Notions the claims are stated in *)

\* the change record carries one of the two "diff incomplete" flags
C_Flagged(ch) == ch.overflow \/ ch.too_large

\* the server diff is taken as it is: a non-empty diff with neither flag
C_Trusted(ch) == ~IsNone(ch.diff) /\ Val(ch.diff) # <<>> /\ ~C_Flagged(ch)

\* the raw-file requests issued for the i-th change record, in order
RECURSIVE C_RequestsOfFrom(_, _)
C_RequestsOfFrom(log, i) ==
    IF log = <<>> THEN <<>>
    ELSE (IF Head(log).change = i THEN <<Head(log).req>> ELSE <<>>)
         \o C_RequestsOfFrom(Tail(log), i)

C_RequestsOf(i) == C_RequestsOfFrom(requests, i)

C_IsPrefix(s, t) == Len(s) <= Len(t) /\ s = SubSeq(t, 1, Len(s))

\* the i-th record is the one emitted last, so base_text and head_text are
\* still the two sides fetched for it
C_JustEmitted(i) == pc \in {"loop", "split"} /\ i = Len(results)

\* the lines of a generated diff after its three header lines
C_Hunk(diff) == SubSeq(splitlines(diff), 4, Len(splitlines(diff)))

C_AllPrefixed(hunk, c, lines) ==
    /\ Len(hunk) = Len(lines)
    /\ \A k \in 1..Len(lines) : hunk[k] = <<c>> \o lines[k]

C_Success(r) == ~r.timeout /\ r.status >= 200 /\ r.status <= 299

\* a timeout, or a status outside 2xx other than the 404 of a raw-file fetch
C_TransportFailure(r, kind) ==
    \/ r.timeout
    \/ ~C_Success(r) /\ ~(kind = "raw" /\ r.status = 404)

C_TransportErrors == {"Timeout", "HTTPError"}

----------------------------------------------------------------------------
(* C1 *)

\* C1 as stated: every change record whose diff field is present (the empty
\* string included) and that carries neither flag is emitted with the server
\* diff verbatim, generated = false and binary = false, and no raw-file
\* request is issued for it.
C1_PresentDiffTrusted ==
    \A i \in 1..Len(changes) :
        (~IsNone(changes[i].diff) /\ ~C_Flagged(changes[i]))
        => /\ C_RequestsOf(i) = <<>>
           /\ idx > i => i <= Len(results)
           /\ i <= Len(results) =>
                 /\ results[i].diff = Val(changes[i].diff)
                 /\ results[i].generated = FALSE
                 /\ results[i].binary = FALSE

\* C1 amended: the same for every change record whose diff is a non-empty
\* string and that carries neither flag.
C1_NonEmptyDiffTrusted ==
    \A i \in 1..Len(changes) :
        (~IsNone(changes[i].diff) /\ Val(changes[i].diff) # <<>> /\ ~C_Flagged(changes[i]))
        => /\ C_RequestsOf(i) = <<>>
           /\ idx > i => i <= Len(results)
           /\ i <= Len(results) =>
                 /\ results[i].diff = Val(changes[i].diff)
                 /\ results[i].generated = FALSE
                 /\ results[i].binary = FALSE
                 /\ results[i].old_path = changes[i].old_path
                 /\ results[i].new_path = changes[i].new_path

C1_Witness ==
    /\ pc = "split"
    /\ Len(results) = 1
    /\ changes[1].diff = Some(SERVER_DIFF)
    /\ ~C_Flagged(changes[1])
    /\ results[1].diff = SERVER_DIFF
    /\ Len(requests) = 2

----------------------------------------------------------------------------
(* C2 *)

\* C2: a change record flagged overflow or too_large is never emitted with
\* the server's diff: its result is the binary marker (binary = true,
\* diff = "", generated = false) or a diff computed locally from the two
\* fetched sides (generated = true, binary = false), whatever the server's
\* diff field holds.
C2_FlaggedNeverTrusted ==
    \A i \in 1..Len(results) :
        C_Flagged(changes[i])
        => \/ /\ results[i].binary = TRUE
              /\ results[i].diff = <<>>
              /\ results[i].generated = FALSE
           \/ /\ results[i].generated = TRUE
              /\ results[i].binary = FALSE
              /\ C_RequestsOf(i) # <<>>
              /\ C_JustEmitted(i) =>
                    results[i].diff = generate_diff(changes[i].old_path, changes[i].new_path,
                                                    base_text, head_text)

C2_Witness ==
    /\ pc = "split"
    /\ Len(results) = 1
    /\ changes[1].too_large
    /\ ~changes[1].overflow
    /\ changes[1].diff = Some(SERVER_DIFF)
    /\ results[1].generated
    /\ results[1].diff # <<>>

----------------------------------------------------------------------------
(* C4 *)

\* the raw-file requests a reconstructed record calls for: the base at
\* base_sha under old_path unless new_file, then the head at head_sha under
\* new_path unless deleted_file
C4_Expected(ch) ==
    (IF ch.new_file THEN <<>>
     ELSE <<RawRequest(gitlab_api, project_path, base_sha, ch.old_path)>>)
    \o (IF ch.deleted_file THEN <<>>
        ELSE <<RawRequest(gitlab_api, project_path, head_sha, ch.new_path)>>)

\* C4: for a reconstructed record, no base-side request is issued when
\* new_file is set and no head-side request when deleted_file is set;
\* otherwise the base is requested at base_sha under old_path and then the
\* head at head_sha under new_path (at most two requests, base first).  The
\* generated diff of a new file shows every head line as an addition, that of
\* a deleted file every base line as a deletion.
C4_SidesFetched ==
    \A i \in 1..Len(changes) :
        ~C_Trusted(changes[i])
        => /\ C_IsPrefix(C_RequestsOf(i), C4_Expected(changes[i]))
           /\ i <= Len(results) => C_RequestsOf(i) = C4_Expected(changes[i])
           /\ (C_JustEmitted(i) /\ results[i].generated /\ changes[i].new_file)
                 => C_AllPrefixed(C_Hunk(results[i].diff), "+", splitlines(Val(head_text)))
           /\ (C_JustEmitted(i) /\ results[i].generated /\ changes[i].deleted_file)
                 => C_AllPrefixed(C_Hunk(results[i].diff), "-", splitlines(Val(base_text)))

C4_Witness ==
    /\ pc = "split"
    /\ Len(results) = 1
    /\ changes[1].new_file
    /\ ~changes[1].deleted_file
    /\ results[1].generated
    /\ Len(C_RequestsOf(1)) = 1
    /\ Len(C_Hunk(results[1].diff)) = 2

----------------------------------------------------------------------------
(* C5 *)

\* C5: a reconstructed record both of whose sides are unavailable is emitted
\* as the binary marker (binary = true, diff = "", generated = false),
\* whatever its new_file and deleted_file flags; and every emitted record
\* with binary = true has diff = "" and generated = false.
C5_BothUnavailableIsBinary ==
    /\ \A i \in 1..Len(results) :
          results[i].binary => results[i].diff = <<>> /\ results[i].generated = FALSE
    /\ \A i \in 1..Len(results) :
          (C_JustEmitted(i) /\ ~C_Trusted(changes[i]) /\ IsNone(base_text) /\ IsNone(head_text))
          => /\ results[i].binary = TRUE
             /\ results[i].diff = <<>>
             /\ results[i].generated = FALSE

C5_Witness ==
    /\ pc = "split"
    /\ Len(results) = 1
    /\ ~changes[1].new_file
    /\ ~changes[1].deleted_file
    /\ Len(C_RequestsOf(1)) = 2
    /\ \E k \in 1..Len(resp.content) : resp.content[k] = NUL
    /\ results[1].binary

----------------------------------------------------------------------------
(* C3 *)

----------------------------------------------------------------------------
(* C6 *)

C6_Lines(change) == splitlines(change.diff)

\* the number of records the chunker emits for one resolved diff
C6_GroupSize(change, n) ==
    IF Len(C6_Lines(change)) <= n THEN 1 ELSE (Len(C6_Lines(change)) + n - 1) \div n

RECURSIVE C6_Offset(_, _, _)
C6_Offset(in, i, n) ==
    IF i = 1 THEN 0 ELSE C6_Offset(in, i - 1, n) + C6_GroupSize(in[i - 1], n)

\* the records emitted for the i-th input file, when the files' records
\* follow one another in the files' order
C6_Group(in, out, i, n) ==
    SubSeq(out, C6_Offset(in, i, n) + 1, C6_Offset(in, i, n) + C6_GroupSize(in[i], n))

C6_Diffs(group) == [k \in 1..Len(group) |-> group[k].diff]

C6_ChunkLines(group) == [k \in 1..Len(group) |-> splitlines(group[k].diff)]

\* the files' records follow one another in the files' order; a diff of at
\* most n lines is passed through unchanged; the chunks of a longer diff are
\* numbered 1, 2, 3, ... and carry the file's path
C6_Framing(in, out, n) ==
    /\ Len(out) = C6_Offset(in, Len(in) + 1, n)
    /\ \A i \in 1..Len(in) :
          LET g == C6_Group(in, out, i, n)
          IN  IF Len(C6_Lines(in[i])) <= n THEN g = <<in[i]>>
              ELSE \A k \in 1..Len(g) :
                      /\ DOMAIN g[k] = {"new_path", "diff", "chunk_index"}
                      /\ g[k].chunk_index = k
                      /\ g[k].new_path = in[i].new_path

\* each chunk's text has at most n lines, all but the last exactly n, and the
\* chunks' lines, one chunk after the other, are the lines of the diff
C6_LinesKept(in, out, i, n) ==
    LET g == C6_Group(in, out, i, n)
    IN  /\ \A k \in 1..Len(g) : Len(splitlines(g[k].diff)) <= n
        /\ \A k \in 1..(Len(g) - 1) : Len(splitlines(g[k].diff)) = n
        /\ Concat(C6_ChunkLines(g)) = C6_Lines(in[i])

\* the last line of some chunk of the diff is empty
C6_ChunkEndsEmpty(change, n) ==
    \E k \in 1..Len(C6_Lines(change)) :
        /\ k % n = 0 \/ k = Len(C6_Lines(change))
        /\ C6_Lines(change)[k] = <<>>

\* C6 as stated: for a threshold n >= 1, diffs of at most n lines pass through
\* unchanged and every longer diff is replaced by chunks numbered 1, 2, 3, ...
\* of at most n lines (all but the last exactly n) whose lines concatenated
\* are the lines of the diff; the files keep their order.
C6_ChunksKeepLines ==
    pc = "review"
    => /\ C6_Framing(results, Val(rv_changes), max_lines)
       /\ \A i \in 1..Len(results) :
             Len(C6_Lines(results[i])) > max_lines
             => C6_LinesKept(results, Val(rv_changes), i, max_lines)

\* C6 amended: the same, where the chunks' texts joined with "\n" are the
\* lines of the diff joined with "\n", and the line counts and the
\* concatenation of the chunks' lines hold for every diff no chunk of which
\* ends in an empty line.
C6_ChunksKeepText ==
    pc = "review"
    => /\ C6_Framing(results, Val(rv_changes), max_lines)
       /\ \A i \in 1..Len(results) :
             Len(C6_Lines(results[i])) > max_lines
             => /\ Len(C6_Group(results, Val(rv_changes), i, max_lines))
                      = (Len(C6_Lines(results[i])) + max_lines - 1) \div max_lines
                /\ Join(C6_Diffs(C6_Group(results, Val(rv_changes), i, max_lines)), <<NL>>)
                      = Join(C6_Lines(results[i]), <<NL>>)
                /\ ~C6_ChunkEndsEmpty(results[i], max_lines)
                      => C6_LinesKept(results, Val(rv_changes), i, max_lines)

\* a diff of 3n+1 lines after a diff of 3 lines, with n = 1: chunks 1..3 of
\* the first file, then chunks 1..4 of the second
C6_Witness ==
    /\ pc = "review"
    /\ max_lines = 1
    /\ Len(results) = 2
    /\ results[2].diff = <<"a", NL, "a", NL, "a", NL, "a">>
    /\ Len(Val(rv_changes)) = 7
    /\ Val(rv_changes)[7].chunk_index = 4
    /\ Val(rv_changes)[7].diff = <<"a">>

----------------------------------------------------------------------------
(* C7 *)

\* the path has no segment "merge_requests", or no segment after it, or one
\* that is not a number
C7_InvalidUrl(url) ==
    LET parts == Split(Strip(url.path, SLASH), SLASH)
    IN  \/ \A k \in 1..Len(parts) : parts[k] # MERGE_REQUESTS
        \/ \E k \in 1..Len(parts) :
              /\ parts[k] = MERGE_REQUESTS
              /\ \A j \in 1..(k - 1) : parts[j] # MERGE_REQUESTS
              /\ k = Len(parts) \/ ~IntLiteral(parts[k + 1])

\* C7: for every URL without a "merge_requests" segment, or whose segment
\* after it is missing or not a number, parse_mr_url raises ValueError (the
\* invalid-reference error) and nothing else, and review_mr ends before any
\* request is issued.
C7_InvalidUrlIsValueError ==
    (C7_InvalidUrl(mr_url) /\ pc # "parse")
    => /\ pc = "raised"
       /\ exc = "ValueError"
       /\ requests = <<>>

----------------------------------------------------------------------------
(* C8 *)

C8_BothParsed == ~IsNone(parsed.with) /\ ~IsNone(parsed.without)

C8_SamePair(P, n) ==
    /\ Val(parsed.with).raised = "none"
    /\ Val(parsed.without).raised = "none"
    /\ Val(parsed.with).project_path = Join(P, <<SLASH>>)
    /\ Val(parsed.without).project_path = Join(P, <<SLASH>>)
    /\ Val(parsed.with).mr_iid = n
    /\ Val(parsed.without).mr_iid = n

\* C8 as stated: for every non-empty list P of project segments and every n,
\* scheme://host/P/-/merge_requests/n and scheme://host/P/merge_requests/n
\* parse to the same pair: P joined with "/", and n.
C8_SentinelOptional ==
    C8_BothParsed => C8_SamePair(parsed.segments, parsed.iid)

\* C8 amended: the same for every P that has no segment "merge_requests" and
\* does not end in "-".
C8_SentinelOptionalForProjects ==
    (/\ C8_BothParsed
     /\ \A k \in 1..Len(parsed.segments) : parsed.segments[k] # MERGE_REQUESTS
     /\ Last(parsed.segments) # SENTINEL)
    => C8_SamePair(parsed.segments, parsed.iid)

\* a "-" that does not come right before "merge_requests" stays in the path
C8_Witness ==
    /\ C8_BothParsed
    /\ parsed.segments = <<SENTINEL, <<"g">>, <<"p">> >>
    /\ parsed.iid = 12
    /\ Val(parsed.with).project_path = <<"-", "/", "g", "/", "p">>
    /\ Val(parsed.without).mr_iid = 12

----------------------------------------------------------------------------
(* C9 *)

C9_HasNul(r) == \E k \in 1..Len(r.content) : r.content[k] = NUL

\* C9: _fetch_raw_text answers a 404 with None without raising; raises on a
\* timeout and on every other unsuccessful status; answers a successful body
\* that holds a NUL byte with None; and otherwise returns the body decoded as
\* UTF-8, or as Latin-1 when it is not UTF-8.
C9_ResponseClassified ==
    pc = "fetched"
    => /\ resp.timeout => fetched.raised # "none"
       /\ (~resp.timeout /\ resp.status = 404) => fetched = [raised |-> "none", value |-> None]
       /\ (~resp.timeout /\ resp.status # 404 /\ ~C_Success(resp)) => fetched.raised # "none"
       /\ (C_Success(resp) /\ C9_HasNul(resp)) => fetched = [raised |-> "none", value |-> None]
       /\ (C_Success(resp) /\ ~C9_HasNul(resp))
             => /\ fetched.raised = "none"
                /\ ~IsNone(fetched.value)
                /\ Val(fetched.value) =
                      Text(IF IsNone(Utf8Decode(resp.content)) THEN resp.content
                           ELSE Val(Utf8Decode(resp.content)))
       /\ fetched.raised # "none" => IsNone(fetched.value)

\* the Latin-1 fallback: a lone lead byte is not UTF-8
C9_Witness ==
    /\ pc = "fetched"
    /\ resp.status = 200
    /\ resp.content = <<49, 195>>
    /\ fetched = [raised |-> "none", value |-> Some(<<"1", "U+00C3">>)]

----------------------------------------------------------------------------
(* C10 *)

\* C10: a GitlabWorkflow constructed with a non-empty gitlab_api keeps it
\* through parse_mr_url, and every request is sent to it.
C10_ExplicitApiKept ==
    init_api # <<>>
    => /\ gitlab_api = init_api
       /\ \A k \in 1..Len(requests) : requests[k].req.api = init_api

====
